---- MODULE Spec2Model ----
(***************************************************************************)
(* Model of the AAR (accelerated address resolver) peripheral model,       *)
(* src/src/HW_models/NRF_AAR.c.                                            *)
(*                                                                         *)
(* The state is the file's static variables, the fields of NRF_AAR_regs    *)
(* the code reads or writes, the memory behind ADDRPTR and IRKPTR, the     *)
(* simulated time, and the position of the handler that is executing.      *)
(* What the handlers hand to their collaborators (events published with    *)
(* nrf_ppi_event, hw_irq_ctrl_set_irq calls, BLECrypt_if_aes_128 calls)    *)
(* is recorded per handler invocation.                                     *)
(***************************************************************************)
EXTENDS Integers, Sequences, FiniteSets, TLC

(* ------------------------------ bounds --------------------------------- *)

\* Largest value the model writes to NRF_AAR_regs.NIRK (and number of IRKs in memory)
MaxNIRK == 2

\* Latest simulated time at which the model still issues a Start task; the
\* time advances beyond it only towards a pending completion
MaxStart == 1

\* Number of different IRKs the memory behind IRKPTR is filled from
NumKeys == 2

(* ---------------------------- constants -------------------------------- *)

\* "no event pending" value of a bs_time_t timer (stands for the largest bs_time_t)
TIME_NEVER == 2147483647

\* NRF_AAR_regs.ENABLE value that enables the peripheral
AAR_ENABLED == 3

\* Bits of INTENSET / INTENCLR / AAR_INTEN
AAR_INTENSET_END_Msk == 1
AAR_INTENCLR_RESOLVED_Msk == 2
AAR_INTENCLR_NOTRESOLVED_Msk == 4

\* All interrupt-mask values over the three event bits
IntMasks == 0..7

\* Values the firmware writes to INTENSET and INTENCLR in Spec
IntWrites == {AAR_INTENSET_END_Msk,
              AAR_INTENCLR_RESOLVED_Msk + AAR_INTENCLR_NOTRESOLVED_Msk}

EventNames == {"END", "RESOLVED", "NOTRESOLVED"}

(* ------------------------- integer bit operators ----------------------- *)

RECURSIVE BitAnd(_, _)
BitAnd(a, b) ==
  IF a = 0 \/ b = 0 THEN 0
  ELSE (a % 2) * (b % 2) + 2 * BitAnd(a \div 2, b \div 2)

\* |= written as +=
BitOr_plus(a, b) == a + b

BitOr(a, b) == a + b - BitAnd(a, b)

\* a & ~b
BitAndNot(a, b) == a - BitAnd(a, b)

(* --------------------------- resolution engine ------------------------- *)

Bytes16 == 1..16

\* Stand-in for the AES-128 primitive: a deterministic function of key and
\* block, both 16 bytes, producing 16 bytes.
BLECrypt_if_aes_128(key, block) ==
  [j \in Bytes16 |-> (key[j] * 5 + block[j] * 3 + 7 * j) % 256]

\* prand = *(uint32_t*)(address_ptr+3) & 0xFFFFFF  (little-endian host);
\* a is the 6-byte address, a[1] being address_ptr[0]
PrandOf(a) == a[4] + 256 * a[5] + 65536 * a[6]

\* hash = *(uint32_t*)address_ptr & 0xFFFFFF
HashOf(a) == a[1] + 256 * a[2] + 65536 * a[3]

\* memset(prand_buf,0,16) and the reversal to big endian
PrandBuf(prand) ==
  [j \in Bytes16 |->
     IF j = 16 THEN prand % 256
     ELSE IF j = 15 THEN (prand \div 256) % 256
     ELSE IF j = 14 THEN (prand \div 65536) % 256
     ELSE 0]

\* hash_check of one IRK: the AES call and the reversal to little endian
HashCheckOf(irk, prand) ==
  LET hash_check_buf == BLECrypt_if_aes_128(irk, PrandBuf(prand))
  IN  hash_check_buf[16] + 256 * hash_check_buf[15] + 65536 * hash_check_buf[14]

\* The loop without the return at the first match: the last match wins
RECURSIVE resolve_loop_last_match(_, _, _, _)
resolve_loop_last_match(i, a, mem, nirk) ==
  IF i >= nirk THEN [good_irk |-> -1, ret |-> i, aes |-> i]
  ELSE LET rest == resolve_loop_last_match(i + 1, a, mem, nirk)
       IN  IF rest.good_irk = -1 /\ HashOf(a) = HashCheckOf(mem[i + 1], PrandOf(a))
           THEN [good_irk |-> i, ret |-> i + 1, aes |-> nirk]
           ELSE rest

\* The loop as a do-while: the bound is tested after the first key only
RECURSIVE resolve_loop_do_while(_, _, _, _)
resolve_loop_do_while(i, a, mem, nirk) ==
  IF i >= nirk /\ i > 0 THEN [good_irk |-> -1, ret |-> i, aes |-> i]
  ELSE IF HashOf(a) = HashCheckOf(mem[i + 1], PrandOf(a))
       THEN [good_irk |-> i, ret |-> i + 1, aes |-> i + 1]
       ELSE resolve_loop_do_while(i + 1, a, mem, nirk)

\* The for loop of nrf_aar_resolve, entered with loop variable i.
\* good_irk: value left in *good_irk, ret: return value, aes: AES calls made.
RECURSIVE resolve_loop(_, _, _, _)
resolve_loop(i, a, mem, nirk) ==
  IF i >= nirk THEN [good_irk |-> -1, ret |-> i, aes |-> i]
  ELSE IF HashOf(a) = HashCheckOf(mem[i + 1], PrandOf(a))
       THEN [good_irk |-> i, ret |-> i + 1, aes |-> i + 1]
       ELSE resolve_loop(i + 1, a, mem, nirk)

\* The resolvability test looking at the top bit of prand only
nrf_aar_resolve_top_bit(a, mem, nirk) ==
  IF PrandOf(a) \div 8388608 # 0
  THEN [good_irk |-> -1, ret |-> nirk, aes |-> 0]
  ELSE resolve_loop(0, a, mem, nirk)

nrf_aar_resolve(a, mem, nirk) ==
  IF PrandOf(a) \div 4194304 # 1
  THEN [good_irk |-> -1, ret |-> nirk, aes |-> 0]
  ELSE resolve_loop(0, a, mem, nirk)

(* ------------------------------ inputs --------------------------------- *)

\* The IRKs memory is filled from: 16 bytes each
Irk(s) == [j \in Bytes16 |-> (s * 16 + j * 3) % 256]

KeyPool == {Irk(s) : s \in 0..(NumKeys - 1)}

\* Contents of the memory behind IRKPTR: MaxNIRK keys
IrkMems == [1..MaxNIRK -> KeyPool]

\* The key list of Spec: the IRKs of the pool in turn
IrkList == [i \in 1..MaxNIRK |-> Irk((i - 1) % NumKeys)]

\* 6-byte address with the given prand and hash fields
MakeAddr(prand, hash) ==
  << hash % 256, (hash \div 256) % 256, (hash \div 65536) % 256,
     prand % 256, (prand \div 256) % 256, (prand \div 65536) % 256 >>

\* prand values: top two bits 01 (resolvable), and 00, 10, 11 (not resolvable)
PrandResolvable == 4268869
PrandTop00 == 74565
PrandTop10 == 8463173
PrandTop11 == 12657477

\* Resolvable addresses: one for each IRK of the pool, one for no IRK of the pool
ResolvableAddrs ==
  {MakeAddr(PrandResolvable, HashCheckOf(k, PrandResolvable)) : k \in KeyPool}
  \cup {MakeAddr(PrandResolvable, 1)}

\* Addresses that are not resolvable although their hash field is the one
\* the first IRK produces for their prand
UnresolvableAddrs ==
  {MakeAddr(p, HashCheckOf(Irk(0), p)) : p \in {PrandTop00, PrandTop10, PrandTop11}}

\* Addresses the memory behind ADDRPTR is filled from in SpecResolve
AddrPoolFull == ResolvableAddrs \cup UnresolvableAddrs

\* Addresses the memory behind ADDRPTR is filled from in Spec
AddrPool ==
  ResolvableAddrs
  \cup {MakeAddr(PrandTop00, HashCheckOf(Irk(0), PrandTop00))}

(* ------------------------------- state --------------------------------- *)

VARIABLES
  now,                \* nsi_hws_get_time()
  Timer_AAR,          \* time when the AAR will finish, or TIME_NEVER
  AAR_INTEN,          \* interrupt enable mask
  AAR_Running,
  matching_irk,
  ENABLE,             \* NRF_AAR_regs.ENABLE
  NIRK,               \* NRF_AAR_regs.NIRK
  STATUS,             \* NRF_AAR_regs.STATUS
  EVENTS_END,         \* NRF_AAR_regs.EVENTS_END
  EVENTS_RESOLVED,    \* NRF_AAR_regs.EVENTS_RESOLVED
  EVENTS_NOTRESOLVED, \* NRF_AAR_regs.EVENTS_NOTRESOLVED
  INTENSET,           \* NRF_AAR_regs.INTENSET
  INTENCLR,           \* NRF_AAR_regs.INTENCLR
  addr,               \* the 6 bytes at NRF_AAR_regs.ADDRPTR + 3
  irkmem,             \* the IRKs at NRF_AAR_regs.IRKPTR
  pc,                 \* position of the executing handler, "idle" when none
  op,                 \* the operation the last step belonged to
  ppi_events,         \* events the current/last operation passed to nrf_ppi_event, in order
  irq_raised,         \* the current/last operation called hw_irq_ctrl_set_irq(CCM_AAR_IRQn)
  aes_calls,          \* BLECrypt_if_aes_128 calls of the current/last operation
  start_time,         \* nsi_hws_get_time() read by the Start whose completion is pending
  start_keys          \* n_irks of the Start whose completion is pending

regs == <<ENABLE, NIRK, STATUS, EVENTS_END, EVENTS_RESOLVED, EVENTS_NOTRESOLVED,
          INTENSET, INTENCLR>>
mem == <<addr, irkmem>>
outs == <<ppi_events, irq_raised, aes_calls>>
hist == <<start_time, start_keys>>
vars == <<now, Timer_AAR, AAR_INTEN, AAR_Running, matching_irk, regs, mem,
          pc, op, outs, hist>>

\* A new operation begins: nothing handed to the collaborators yet
NoOutputs ==
  /\ ppi_events' = <<>>
  /\ irq_raised' = FALSE
  /\ aes_calls' = 0

\* The pending completion was cancelled or is being delivered
NoPendingStart ==
  /\ start_time' = 0
  /\ start_keys' = 0

\* State after nrf_aar_init: registers zeroed, statics reset; matching_irk is
\* a zero-initialised static. The memory contents are the firmware's.
Init ==
  /\ now = 0
  /\ Timer_AAR = TIME_NEVER
  /\ AAR_INTEN = 0
  /\ AAR_Running = FALSE
  /\ matching_irk = 0
  /\ ENABLE = 0
  /\ NIRK = 0
  /\ STATUS = 0
  /\ EVENTS_END = 0
  /\ EVENTS_RESOLVED = 0
  /\ EVENTS_NOTRESOLVED = 0
  /\ INTENSET = 0
  /\ INTENCLR = 0
  /\ addr \in AddrPool
  /\ irkmem = IrkList
  /\ pc = "idle"
  /\ op = "INIT"
  /\ ppi_events = <<>>
  /\ irq_raised = FALSE
  /\ aes_calls = 0
  /\ start_time = 0
  /\ start_keys = 0

(* ------------------------------ events --------------------------------- *)

\* if (AAR_INTEN & mask) hw_irq_ctrl_set_irq(CCM_AAR_IRQn);
IrqIfEnabled(mask) ==
  irq_raised' = (irq_raised \/ BitAnd(AAR_INTEN, mask) # 0)

signal_EVENTS_END ==
  /\ EVENTS_END' = 1
  /\ ppi_events' = Append(ppi_events, "END")
  /\ IrqIfEnabled(AAR_INTENSET_END_Msk)

\* The Resolved event testing the NotResolved interrupt bit
signal_EVENTS_RESOLVED_wrong_mask ==
  /\ EVENTS_RESOLVED' = 1
  /\ ppi_events' = Append(ppi_events, "RESOLVED")
  /\ IrqIfEnabled(AAR_INTENCLR_NOTRESOLVED_Msk)

signal_EVENTS_RESOLVED ==
  /\ EVENTS_RESOLVED' = 1
  /\ ppi_events' = Append(ppi_events, "RESOLVED")
  /\ IrqIfEnabled(AAR_INTENCLR_RESOLVED_Msk)

signal_EVENTS_NOTRESOLVED ==
  /\ EVENTS_NOTRESOLVED' = 1
  /\ ppi_events' = Append(ppi_events, "NOTRESOLVED")
  /\ IrqIfEnabled(AAR_INTENCLR_NOTRESOLVED_Msk)

(* ------------------------------- tasks --------------------------------- *)

\* The delay without its constant part
AAR_delay_no_setup(t, n_irks) == t + 6 * n_irks

\* Timer_AAR = nsi_hws_get_time() + 1 + 6 * n_irks
AAR_delay(t, n_irks) == t + 1 + 6 * n_irks

\* The Start task without AAR_Running = true
nrf_aar_TASK_START_not_running ==
  /\ pc = "idle"
  /\ now <= MaxStart
  /\ op' = "START"
  /\ IF ENABLE # AAR_ENABLED
     THEN /\ NoOutputs
          /\ UNCHANGED <<now, Timer_AAR, AAR_INTEN, AAR_Running, matching_irk,
                         regs, mem, pc, hist>>
     ELSE LET r == nrf_aar_resolve(addr, irkmem, NIRK)
          IN  /\ matching_irk' = r.good_irk
              /\ Timer_AAR' = now + 1 + 6 * r.ret
              /\ ppi_events' = <<>>
              /\ irq_raised' = FALSE
              /\ aes_calls' = r.aes
              /\ start_time' = now
              /\ start_keys' = r.ret
              /\ UNCHANGED <<now, AAR_INTEN, AAR_Running, regs, mem, pc>>

\* The Start task clearing the event flags of the previous run
nrf_aar_TASK_START_clears_events ==
  /\ pc = "idle"
  /\ now <= MaxStart
  /\ op' = "START"
  /\ IF ENABLE # AAR_ENABLED
     THEN /\ NoOutputs
          /\ UNCHANGED <<now, Timer_AAR, AAR_INTEN, AAR_Running, matching_irk,
                         regs, mem, pc, hist>>
     ELSE LET r == nrf_aar_resolve(addr, irkmem, NIRK)
          IN  /\ AAR_Running' = TRUE
              /\ matching_irk' = r.good_irk
              /\ Timer_AAR' = now + 1 + 6 * r.ret
              /\ ppi_events' = <<>>
              /\ irq_raised' = FALSE
              /\ aes_calls' = r.aes
              /\ start_time' = now
              /\ start_keys' = r.ret
              /\ EVENTS_END' = 0
              /\ EVENTS_RESOLVED' = 0
              /\ EVENTS_NOTRESOLVED' = 0
              /\ UNCHANGED <<now, AAR_INTEN, ENABLE, NIRK, STATUS, INTENSET,
                             INTENCLR, mem, pc>>

\* The Start task publishing a match in STATUS at once
nrf_aar_TASK_START_writes_status ==
  /\ pc = "idle"
  /\ now <= MaxStart
  /\ op' = "START"
  /\ IF ENABLE # AAR_ENABLED
     THEN /\ NoOutputs
          /\ UNCHANGED <<now, Timer_AAR, AAR_INTEN, AAR_Running, matching_irk,
                         regs, mem, pc, hist>>
     ELSE LET r == nrf_aar_resolve(addr, irkmem, NIRK)
          IN  /\ AAR_Running' = TRUE
              /\ matching_irk' = r.good_irk
              /\ Timer_AAR' = now + 1 + 6 * r.ret
              /\ ppi_events' = <<>>
              /\ irq_raised' = FALSE
              /\ aes_calls' = r.aes
              /\ start_time' = now
              /\ start_keys' = r.ret
              /\ STATUS' = IF r.good_irk # -1 THEN r.good_irk ELSE STATUS
              /\ UNCHANGED <<now, AAR_INTEN, ENABLE, NIRK, EVENTS_END,
                             EVENTS_RESOLVED, EVENTS_NOTRESOLVED, INTENSET,
                             INTENCLR, mem, pc>>

\* The Start task. It returns at once unless the peripheral is enabled;
\* otherwise it resolves the address and schedules the completion.
nrf_aar_TASK_START ==
  /\ pc = "idle"
  /\ now <= MaxStart
  /\ op' = "START"
  /\ IF ENABLE # AAR_ENABLED
     THEN /\ NoOutputs
          /\ UNCHANGED <<now, Timer_AAR, AAR_INTEN, AAR_Running, matching_irk,
                         regs, mem, pc, hist>>
     ELSE LET r == nrf_aar_resolve(addr, irkmem, NIRK)
          IN  /\ AAR_Running' = TRUE
              /\ matching_irk' = r.good_irk
              /\ Timer_AAR' = AAR_delay(now, r.ret)
              /\ ppi_events' = <<>>
              /\ irq_raised' = FALSE
              /\ aes_calls' = r.aes
              /\ start_time' = now
              /\ start_keys' = r.ret
              /\ UNCHANGED <<now, AAR_INTEN, regs, mem, pc>>

\* The Stop task without Timer_AAR = TIME_NEVER
nrf_aar_TASK_STOP_keeps_timer ==
  /\ pc = "idle"
  /\ op' = "STOP"
  /\ NoOutputs
  /\ IF ~AAR_Running
     THEN UNCHANGED <<now, Timer_AAR, AAR_INTEN, AAR_Running, matching_irk,
                      regs, mem, pc, hist>>
     ELSE /\ AAR_Running' = FALSE
          /\ pc' = "stop_end"
          /\ UNCHANGED <<now, Timer_AAR, AAR_INTEN, matching_irk, regs, mem, hist>>

\* The Stop task without its test of AAR_Running
nrf_aar_TASK_STOP_unguarded ==
  /\ pc = "idle"
  /\ op' = "STOP"
  /\ NoOutputs
  /\ AAR_Running' = FALSE
  /\ Timer_AAR' = TIME_NEVER
  /\ pc' = "stop_end"
  /\ NoPendingStart
  /\ UNCHANGED <<now, AAR_INTEN, matching_irk, regs, mem>>

\* The Stop task up to its call of signal_EVENTS_END
nrf_aar_TASK_STOP ==
  /\ pc = "idle"
  /\ op' = "STOP"
  /\ NoOutputs
  /\ IF ~AAR_Running
     THEN UNCHANGED <<now, Timer_AAR, AAR_INTEN, AAR_Running, matching_irk,
                      regs, mem, pc, hist>>
     ELSE /\ AAR_Running' = FALSE
          /\ Timer_AAR' = TIME_NEVER
          /\ pc' = "stop_end"
          /\ NoPendingStart
          /\ UNCHANGED <<now, AAR_INTEN, matching_irk, regs, mem>>

\* The Stop task ending without signal_EVENTS_END
nrf_aar_TASK_STOP_end_silent ==
  /\ pc = "stop_end"
  /\ pc' = "idle"
  /\ UNCHANGED <<now, Timer_AAR, AAR_INTEN, AAR_Running, matching_irk,
                 regs, mem, op, outs, hist>>

\* The call of signal_EVENTS_END that ends the Stop task
nrf_aar_TASK_STOP_end ==
  /\ pc = "stop_end"
  /\ signal_EVENTS_END
  /\ pc' = "idle"
  /\ UNCHANGED <<now, Timer_AAR, AAR_INTEN, AAR_Running, matching_irk,
                 ENABLE, NIRK, STATUS, EVENTS_RESOLVED, EVENTS_NOTRESOLVED,
                 INTENSET, INTENCLR, mem, op, aes_calls, hist>>

(* ------------------------- completion callback ------------------------- *)

\* The callback going straight to its final signal_EVENTS_END
nrf_aar_timer_triggered_skips_result ==
  /\ pc = "idle"
  /\ Timer_AAR # TIME_NEVER
  /\ now = Timer_AAR
  /\ op' = "TIMER"
  /\ NoOutputs
  /\ AAR_Running' = FALSE
  /\ Timer_AAR' = TIME_NEVER
  /\ pc' = "tt_end"
  /\ NoPendingStart
  /\ UNCHANGED <<now, AAR_INTEN, matching_irk, regs, mem>>

\* The callback leaving AAR_Running and Timer_AAR for after the events
nrf_aar_timer_triggered_late_idle ==
  /\ pc = "idle"
  /\ Timer_AAR # TIME_NEVER
  /\ now = Timer_AAR
  /\ op' = "TIMER"
  /\ NoOutputs
  /\ pc' = "tt_signal"
  /\ NoPendingStart
  /\ UNCHANGED <<now, Timer_AAR, AAR_Running, AAR_INTEN, matching_irk, regs, mem>>

\* The callback dropping the completion when the peripheral is not enabled
nrf_aar_timer_triggered_checks_enable ==
  /\ pc = "idle"
  /\ Timer_AAR # TIME_NEVER
  /\ now = Timer_AAR
  /\ op' = "TIMER"
  /\ NoOutputs
  /\ AAR_Running' = FALSE
  /\ Timer_AAR' = TIME_NEVER
  /\ pc' = IF ENABLE = AAR_ENABLED THEN "tt_signal" ELSE "idle"
  /\ NoPendingStart
  /\ UNCHANGED <<now, AAR_INTEN, matching_irk, regs, mem>>

\* The scheduler calls the callback registered for Timer_AAR when the
\* simulated time is Timer_AAR. First lines of the callback: back to idle.
nrf_aar_timer_triggered ==
  /\ pc = "idle"
  /\ Timer_AAR # TIME_NEVER
  /\ now = Timer_AAR
  /\ op' = "TIMER"
  /\ NoOutputs
  /\ AAR_Running' = FALSE
  /\ Timer_AAR' = TIME_NEVER
  /\ pc' = "tt_signal"
  /\ NoPendingStart
  /\ UNCHANGED <<now, AAR_INTEN, matching_irk, regs, mem>>

\* The result step testing if (matching_irk)
nrf_aar_timer_triggered_result_nonzero ==
  /\ pc = "tt_signal"
  /\ IF matching_irk # 0
     THEN /\ STATUS' = matching_irk
          /\ signal_EVENTS_RESOLVED
          /\ UNCHANGED EVENTS_NOTRESOLVED
     ELSE /\ signal_EVENTS_NOTRESOLVED
          /\ UNCHANGED <<STATUS, EVENTS_RESOLVED>>
  /\ pc' = "tt_end"
  /\ UNCHANGED <<now, Timer_AAR, AAR_INTEN, AAR_Running, matching_irk,
                 ENABLE, NIRK, EVENTS_END, INTENSET, INTENCLR, mem, op,
                 aes_calls, hist>>

\* The result step writing STATUS before it tests matching_irk
nrf_aar_timer_triggered_result_status_first ==
  /\ pc = "tt_signal"
  /\ STATUS' = matching_irk
  /\ IF matching_irk # -1
     THEN /\ signal_EVENTS_RESOLVED
          /\ UNCHANGED EVENTS_NOTRESOLVED
     ELSE /\ signal_EVENTS_NOTRESOLVED
          /\ UNCHANGED EVENTS_RESOLVED
  /\ pc' = "tt_end"
  /\ UNCHANGED <<now, Timer_AAR, AAR_INTEN, AAR_Running, matching_irk,
                 ENABLE, NIRK, EVENTS_END, INTENSET, INTENCLR, mem, op,
                 aes_calls, hist>>

\* The result step resolving the address again instead of using matching_irk
nrf_aar_timer_triggered_result_resolves_again ==
  /\ pc = "tt_signal"
  /\ LET again == nrf_aar_resolve(addr, irkmem, NIRK).good_irk
     IN  IF again # -1
         THEN /\ STATUS' = again
              /\ signal_EVENTS_RESOLVED
              /\ UNCHANGED EVENTS_NOTRESOLVED
         ELSE /\ signal_EVENTS_NOTRESOLVED
              /\ UNCHANGED <<STATUS, EVENTS_RESOLVED>>
  /\ pc' = "tt_end"
  /\ UNCHANGED <<now, Timer_AAR, AAR_INTEN, AAR_Running, matching_irk,
                 ENABLE, NIRK, EVENTS_END, INTENSET, INTENCLR, mem, op,
                 aes_calls, hist>>

\* if (matching_irk != -1) { STATUS = matching_irk; signal_EVENTS_RESOLVED(); }
\* else { signal_EVENTS_NOTRESOLVED(); }
nrf_aar_timer_triggered_result ==
  /\ pc = "tt_signal"
  /\ IF matching_irk # -1
     THEN /\ STATUS' = matching_irk
          /\ signal_EVENTS_RESOLVED
          /\ UNCHANGED EVENTS_NOTRESOLVED
     ELSE /\ signal_EVENTS_NOTRESOLVED
          /\ UNCHANGED <<STATUS, EVENTS_RESOLVED>>
  /\ pc' = "tt_end"
  /\ UNCHANGED <<now, Timer_AAR, AAR_INTEN, AAR_Running, matching_irk,
                 ENABLE, NIRK, EVENTS_END, INTENSET, INTENCLR, mem, op,
                 aes_calls, hist>>

\* The final signal_EVENTS_END of the callback
nrf_aar_timer_triggered_end ==
  /\ pc = "tt_end"
  /\ signal_EVENTS_END
  /\ pc' = "idle"
  /\ UNCHANGED <<now, Timer_AAR, AAR_INTEN, AAR_Running, matching_irk,
                 ENABLE, NIRK, STATUS, EVENTS_RESOLVED, EVENTS_NOTRESOLVED,
                 INTENSET, INTENCLR, mem, op, aes_calls, hist>>

(* ------------------------- interrupt mask writes ----------------------- *)

\* A write of b to INTENSET followed by its side-effect function
nrf_aar_regw_sideeffects_INTENSET(b) ==
  /\ pc = "idle"
  /\ op' = "INTENSET"
  /\ NoOutputs
  /\ IF b # 0
     THEN /\ AAR_INTEN' = BitOr(AAR_INTEN, b)
          /\ INTENSET' = BitOr(AAR_INTEN, b)
     ELSE /\ INTENSET' = b
          /\ UNCHANGED AAR_INTEN
  /\ UNCHANGED <<now, Timer_AAR, AAR_Running, matching_irk, ENABLE, NIRK, STATUS,
                 EVENTS_END, EVENTS_RESOLVED, EVENTS_NOTRESOLVED, INTENCLR,
                 mem, pc, hist>>

\* A write of b to INTENCLR followed by its side-effect function
nrf_aar_regw_sideeffects_INTENCLR(b) ==
  /\ pc = "idle"
  /\ op' = "INTENCLR"
  /\ NoOutputs
  /\ IF b # 0
     THEN /\ AAR_INTEN' = BitAndNot(AAR_INTEN, b)
          /\ INTENSET' = BitAndNot(AAR_INTEN, b)
          /\ INTENCLR' = 0
     ELSE /\ INTENCLR' = b
          /\ UNCHANGED <<AAR_INTEN, INTENSET>>
  /\ UNCHANGED <<now, Timer_AAR, AAR_Running, matching_irk, ENABLE, NIRK, STATUS,
                 EVENTS_END, EVENTS_RESOLVED, EVENTS_NOTRESOLVED,
                 mem, pc, hist>>

(* ---------------------- firmware and the scheduler --------------------- *)

\* The firmware writes a register that has no side-effect function
WriteENABLE(v) ==
  /\ pc = "idle"
  /\ op' = "WRITE"
  /\ NoOutputs
  /\ ENABLE' = v
  /\ UNCHANGED <<now, Timer_AAR, AAR_INTEN, AAR_Running, matching_irk, NIRK, STATUS,
                 EVENTS_END, EVENTS_RESOLVED, EVENTS_NOTRESOLVED, INTENSET, INTENCLR,
                 mem, pc, hist>>

WriteNIRK(n) ==
  /\ pc = "idle"
  /\ op' = "WRITE"
  /\ NoOutputs
  /\ NIRK' = n
  /\ UNCHANGED <<now, Timer_AAR, AAR_INTEN, AAR_Running, matching_irk, ENABLE, STATUS,
                 EVENTS_END, EVENTS_RESOLVED, EVENTS_NOTRESOLVED, INTENSET, INTENCLR,
                 mem, pc, hist>>

\* The firmware (or the radio) fills the address buffer
WriteAddr(a) ==
  /\ pc = "idle"
  /\ op' = "WRITE"
  /\ NoOutputs
  /\ addr' = a
  /\ UNCHANGED <<now, Timer_AAR, AAR_INTEN, AAR_Running, matching_irk, regs,
                 irkmem, pc, hist>>

\* The firmware fills the key list (or points IRKPTR to another one)
WriteIrk(m) ==
  /\ pc = "idle"
  /\ op' = "WRITE"
  /\ NoOutputs
  /\ irkmem' = m
  /\ UNCHANGED <<now, Timer_AAR, AAR_INTEN, AAR_Running, matching_irk, regs,
                 addr, pc, hist>>

\* The firmware clears an event register
ClearEvent(e) ==
  /\ pc = "idle"
  /\ op' = "CLEAR_EVENT"
  /\ NoOutputs
  /\ EVENTS_END' = IF e = "END" THEN 0 ELSE EVENTS_END
  /\ EVENTS_RESOLVED' = IF e = "RESOLVED" THEN 0 ELSE EVENTS_RESOLVED
  /\ EVENTS_NOTRESOLVED' = IF e = "NOTRESOLVED" THEN 0 ELSE EVENTS_NOTRESOLVED
  /\ UNCHANGED <<now, Timer_AAR, AAR_INTEN, AAR_Running, matching_irk, ENABLE, NIRK,
                 STATUS, INTENSET, INTENCLR, mem, pc, hist>>

\* The scheduler advances the simulated time, never past a pending Timer_AAR
AdvanceTime ==
  /\ pc = "idle"
  /\ now < Timer_AAR
  /\ Timer_AAR = TIME_NEVER => now < MaxStart
  /\ now' = now + 1
  /\ op' = "TIME"
  /\ NoOutputs
  /\ UNCHANGED <<Timer_AAR, AAR_INTEN, AAR_Running, matching_irk, regs, mem, pc, hist>>

Next ==
  \/ nrf_aar_TASK_START
  \/ nrf_aar_TASK_STOP
  \/ nrf_aar_TASK_STOP_end
  \/ nrf_aar_timer_triggered
  \/ nrf_aar_timer_triggered_result
  \/ nrf_aar_timer_triggered_end
  \/ \E b \in IntWrites : nrf_aar_regw_sideeffects_INTENSET(b)
  \/ \E b \in IntWrites : nrf_aar_regw_sideeffects_INTENCLR(b)
  \/ \E v \in {0, AAR_ENABLED} : WriteENABLE(v)
  \/ \E n \in 0..MaxNIRK : WriteNIRK(n)
  \/ \E a \in AddrPool : WriteAddr(a)
  \/ \E e \in EventNames : ClearEvent(e)
  \/ AdvanceTime

Spec == Init /\ [][Next]_vars

(* ---------------- the resolution engine over all its inputs ------------ *)

\* The peripheral enabled, with any address, any key list and any NIRK
InitResolve ==
  /\ now = 0
  /\ Timer_AAR = TIME_NEVER
  /\ AAR_INTEN = 0
  /\ AAR_Running = FALSE
  /\ matching_irk = 0
  /\ ENABLE = AAR_ENABLED
  /\ NIRK \in 0..MaxNIRK
  /\ STATUS = 0
  /\ EVENTS_END = 0
  /\ EVENTS_RESOLVED = 0
  /\ EVENTS_NOTRESOLVED = 0
  /\ INTENSET = 0
  /\ INTENCLR = 0
  /\ addr \in AddrPoolFull
  /\ irkmem \in IrkMems
  /\ pc = "idle"
  /\ op = "INIT"
  /\ ppi_events = <<>>
  /\ irq_raised = FALSE
  /\ aes_calls = 0
  /\ start_time = 0
  /\ start_keys = 0

NextResolve ==
  \/ nrf_aar_TASK_START
  \/ nrf_aar_timer_triggered
  \/ nrf_aar_timer_triggered_result
  \/ nrf_aar_timer_triggered_end
  \/ AdvanceTime

SpecResolve == InitResolve /\ [][NextResolve]_vars

(* ------------------- the interrupt mask over all writes ---------------- *)

\* The peripheral enabled with one IRK in use, and any address
InitInt ==
  /\ now = 0
  /\ Timer_AAR = TIME_NEVER
  /\ AAR_INTEN = 0
  /\ AAR_Running = FALSE
  /\ matching_irk = 0
  /\ ENABLE = AAR_ENABLED
  /\ NIRK = 1
  /\ STATUS = 0
  /\ EVENTS_END = 0
  /\ EVENTS_RESOLVED = 0
  /\ EVENTS_NOTRESOLVED = 0
  /\ INTENSET = 0
  /\ INTENCLR = 0
  /\ addr \in AddrPool
  /\ irkmem = IrkList
  /\ pc = "idle"
  /\ op = "INIT"
  /\ ppi_events = <<>>
  /\ irq_raised = FALSE
  /\ aes_calls = 0
  /\ start_time = 0
  /\ start_keys = 0

\* Any value is written to INTENSET and INTENCLR, 0 included
NextInt ==
  \/ nrf_aar_TASK_START
  \/ nrf_aar_TASK_STOP
  \/ nrf_aar_TASK_STOP_end
  \/ nrf_aar_timer_triggered
  \/ nrf_aar_timer_triggered_result
  \/ nrf_aar_timer_triggered_end
  \/ \E b \in IntMasks : nrf_aar_regw_sideeffects_INTENSET(b)
  \/ \E b \in IntMasks : nrf_aar_regw_sideeffects_INTENCLR(b)
  \/ AdvanceTime

SpecInt == InitInt /\ [][NextInt]_vars

(* ------------- the inputs rewritten while a completion is pending ------ *)

InitLatch == InitInt

\* Starts and completions, with the address, the key list and NIRK written
\* at any time in between
NextLatch ==
  \/ nrf_aar_TASK_START
  \/ nrf_aar_timer_triggered
  \/ nrf_aar_timer_triggered_result
  \/ nrf_aar_timer_triggered_end
  \/ \E n \in 0..MaxNIRK : WriteNIRK(n)
  \/ \E a \in AddrPool : WriteAddr(a)
  \/ \E m \in IrkMems : WriteIrk(m)
  \/ AdvanceTime

SpecLatch == InitLatch /\ [][NextLatch]_vars

(* --------------- the End event wired to the Start task ----------------- *)

\* signal_EVENTS_END of a Stop or of a completion when the interconnect has
\* the End event of this peripheral trigger its Start task: nrf_ppi_event
\* calls nrf_aar_TASK_START before it returns, then the interrupt is raised
\* if enabled and the handler ends.
nrf_ppi_event_END_to_TASK_START ==
  /\ pc \in {"tt_end", "stop_end"}
  /\ now <= MaxStart
  /\ op' = "PPI_START"
  /\ signal_EVENTS_END
  /\ pc' = "idle"
  /\ IF ENABLE # AAR_ENABLED
     THEN UNCHANGED <<Timer_AAR, AAR_Running, matching_irk, aes_calls, hist>>
     ELSE LET r == nrf_aar_resolve(addr, irkmem, NIRK)
          IN  /\ AAR_Running' = TRUE
              /\ matching_irk' = r.good_irk
              /\ Timer_AAR' = AAR_delay(now, r.ret)
              /\ aes_calls' = r.aes
              /\ start_time' = now
              /\ start_keys' = r.ret
  /\ UNCHANGED <<now, AAR_INTEN, ENABLE, NIRK, STATUS, EVENTS_RESOLVED,
                 EVENTS_NOTRESOLVED, INTENSET, INTENCLR, mem>>

InitPPI == Init

\* Every End event either goes nowhere or triggers the Start task
NextPPI ==
  \/ nrf_aar_TASK_START
  \/ nrf_aar_TASK_STOP
  \/ nrf_aar_TASK_STOP_end
  \/ nrf_aar_timer_triggered
  \/ nrf_aar_timer_triggered_result
  \/ nrf_aar_timer_triggered_end
  \/ nrf_ppi_event_END_to_TASK_START
  \/ \E v \in {0, AAR_ENABLED} : WriteENABLE(v)
  \/ \E n \in 0..MaxNIRK : WriteNIRK(n)
  \/ \E a \in AddrPool : WriteAddr(a)
  \/ AdvanceTime

SpecPPI == InitPPI /\ [][NextPPI]_vars

(* ------------------- progress of an accepted Start --------------------- *)

InitLive == InitInt

NextLive ==
  \/ nrf_aar_TASK_START
  \/ nrf_aar_TASK_STOP
  \/ nrf_aar_TASK_STOP_end
  \/ nrf_aar_timer_triggered
  \/ nrf_aar_timer_triggered_result
  \/ nrf_aar_timer_triggered_end
  \/ \E n \in 0..MaxNIRK : WriteNIRK(n)
  \/ \E a \in AddrPool : WriteAddr(a)
  \/ AdvanceTime

\* The scheduler keeps advancing the time up to a pending Timer_AAR and calls
\* the callback registered for it when the time is reached; a handler that
\* was entered runs to its end
SpecLive ==
  /\ InitLive
  /\ [][NextLive]_vars
  /\ WF_vars(AdvanceTime)
  /\ WF_vars(nrf_aar_timer_triggered)
  /\ WF_vars(nrf_aar_timer_triggered_result)
  /\ WF_vars(nrf_aar_timer_triggered_end)
  /\ WF_vars(nrf_aar_TASK_STOP_end)

(* ============================== properties ============================= *)

\* Top two bits of the 24-bit prand field of the address in memory
PrandTopBits == addr[6] \div 64

\* Key j (counted from 0) of the key list reproduces the hash field of the address
KeyMatches(j) == HashCheckOf(irkmem[j + 1], PrandOf(addr)) = HashOf(addr)

\* C1: a Start task issued while the engine is Running is a no-op: it leaves
\* the pending completion time, the stashed result, the running flag, STATUS
\* and the event flags unchanged.
C1_StartWhileRunningIsNoOp ==
  [][ (AAR_Running /\ op' = "START") =>
        UNCHANGED <<Timer_AAR, matching_irk, AAR_Running, STATUS,
                    EVENTS_END, EVENTS_RESOLVED, EVENTS_NOTRESOLVED>> ]_vars

\* C2: a Stop task issued while Running clears the running flag and the
\* pending completion time and then publishes End exactly once in the same
\* instant without touching Resolved, NotResolved or STATUS; and as long as
\* the engine is idle and not running (no Start accepted since) the completion
\* callback does not run and neither Resolved nor NotResolved is set.
C2_StopCancelsCompletion ==
  /\ [][ (AAR_Running /\ op' = "STOP") =>
           /\ ~AAR_Running'
           /\ Timer_AAR' = TIME_NEVER
           /\ pc' = "stop_end"
           /\ ppi_events' = <<>> ]_vars
  /\ [][ pc = "stop_end" =>
           /\ pc' = "idle"
           /\ ppi_events' = <<"END">>
           /\ EVENTS_END' = 1
           /\ now' = now
           /\ ~AAR_Running'
           /\ Timer_AAR' = TIME_NEVER
           /\ UNCHANGED <<EVENTS_RESOLVED, EVENTS_NOTRESOLVED, STATUS>> ]_vars
  /\ [][ (~AAR_Running /\ pc = "idle") =>
           /\ op' # "TIMER"
           /\ EVENTS_RESOLVED' <= EVENTS_RESOLVED
           /\ EVENTS_NOTRESOLVED' <= EVENTS_NOTRESOLVED ]_vars

\* A Stop has cancelled a Start whose resolution had found a match: End was
\* published, nothing is pending and no result event is set
C2_Witness ==
  /\ op = "STOP"
  /\ pc = "idle"
  /\ ppi_events = <<"END">>
  /\ ~AAR_Running
  /\ Timer_AAR = TIME_NEVER
  /\ matching_irk = 1
  /\ EVENTS_RESOLVED = 0
  /\ EVENTS_NOTRESOLVED = 0
  /\ now > 0

\* C3: whenever the completion callback is entered, the time is the time of
\* the Start it completes plus 1 + 6 * the number of keys that Start examined.
C3_CompletionDelay ==
  [][ (pc = "idle" /\ pc' = "tt_signal") =>
        now = start_time + 1 + 6 * start_keys ]_vars

\* The callback has fired for a Start issued at the latest start time that
\* examined the largest number of keys
C3_Witness ==
  /\ op = "TIMER"
  /\ pc = "tt_signal"
  /\ now = MaxStart + 1 + 6 * MaxNIRK

\* C4: when the completion callback has finished, it has published exactly
\* one of Resolved / NotResolved followed by End, chosen by the stashed
\* result: with a match STATUS is the matched index and EVENTS_RESOLVED is
\* set, without one EVENTS_NOTRESOLVED is set; EVENTS_END is set and the
\* engine is idle.
C4_CompletionFiresOneResult ==
  (op = "TIMER" /\ pc = "idle") =>
    /\ EVENTS_END = 1
    /\ ~AAR_Running
    /\ Timer_AAR = TIME_NEVER
    /\ IF matching_irk # -1
       THEN /\ STATUS = matching_irk
            /\ EVENTS_RESOLVED = 1
            /\ ppi_events = <<"RESOLVED", "END">>
       ELSE /\ EVENTS_NOTRESOLVED = 1
            /\ ppi_events = <<"NOTRESOLVED", "END">>

\* A completion with a match at index 1 has finished while NotResolved had
\* never been set
C4_Witness ==
  /\ op = "TIMER"
  /\ pc = "idle"
  /\ matching_irk = 1
  /\ STATUS = 1
  /\ EVENTS_NOTRESOLVED = 0
  /\ ppi_events = <<"RESOLVED", "END">>

\* C5: within a completion, Resolved or NotResolved is set and published
\* before End: before the result is signalled nothing is published, when End
\* is about to be signalled exactly the result event is published and its
\* flag is set, and whenever the callback has published End, the result event
\* precedes it.
C5_ResultBeforeEnd ==
  /\ pc = "tt_signal" => ppi_events = <<>>
  /\ pc = "tt_end" =>
       \/ ppi_events = <<"RESOLVED">> /\ EVENTS_RESOLVED = 1
       \/ ppi_events = <<"NOTRESOLVED">> /\ EVENTS_NOTRESOLVED = 1
  /\ (op = "TIMER" /\ \E i \in 1..Len(ppi_events) : ppi_events[i] = "END") =>
       /\ Len(ppi_events) = 2
       /\ ppi_events[2] = "END"
       /\ \/ ppi_events[1] = "RESOLVED" /\ EVENTS_RESOLVED = 1
          \/ ppi_events[1] = "NOTRESOLVED" /\ EVENTS_NOTRESOLVED = 1

\* Inside a completion: Resolved is set and published, End is not yet
C5_Witness ==
  /\ pc = "tt_end"
  /\ ppi_events = <<"RESOLVED">>
  /\ EVENTS_RESOLVED = 1
  /\ EVENTS_END = 0

\* C6: a completion is pending exactly when the engine is running; the
\* running flag is raised only by a Start task accepted with the peripheral
\* enabled, and it is down after every step of a Stop task or of the
\* completion callback.
C6_PendingIffRunning ==
  /\ (Timer_AAR # TIME_NEVER) <=> AAR_Running
  /\ [][ /\ (Timer_AAR' # TIME_NEVER) <=> AAR_Running'
         /\ (~AAR_Running /\ AAR_Running') =>
              (op' = "START" /\ ENABLE = AAR_ENABLED)
         /\ op' \in {"STOP", "TIMER"} => ~AAR_Running' ]_vars

\* Running again after an earlier End, with interrupts enabled in between
C6_Witness ==
  /\ AAR_Running
  /\ Timer_AAR # TIME_NEVER
  /\ now < Timer_AAR
  /\ EVENTS_END = 1
  /\ AAR_INTEN # 0
  /\ ENABLE # AAR_ENABLED

\* C7: STATUS changes only when the completion callback signals the result
\* of a resolution that found a match, and then to the matched index.
C7_StatusOnlyOnMatch ==
  [][ STATUS' # STATUS =>
        /\ pc = "tt_signal"
        /\ matching_irk # -1
        /\ STATUS' = matching_irk ]_vars

\* A Stop has cancelled a Start whose resolution had found a match at an
\* index that STATUS does not hold
C7_Witness ==
  /\ op = "STOP"
  /\ pc = "idle"
  /\ ppi_events = <<"END">>
  /\ matching_irk = 1
  /\ STATUS = 0

\* C8: no step other than the firmware's clearing of an event register
\* changes EVENTS_END, EVENTS_RESOLVED or EVENTS_NOTRESOLVED from 1 to 0.
C8_EventsMonotone ==
  [][ op' # "CLEAR_EVENT" =>
        /\ EVENTS_END' >= EVENTS_END
        /\ EVENTS_RESOLVED' >= EVENTS_RESOLVED
        /\ EVENTS_NOTRESOLVED' >= EVENTS_NOTRESOLVED ]_vars

\* A completion has finished with all three flags set: one of the result
\* flags dates from an earlier completion
C8_Witness ==
  /\ op = "TIMER"
  /\ pc = "idle"
  /\ EVENTS_END = 1
  /\ EVENTS_RESOLVED = 1
  /\ EVENTS_NOTRESOLVED = 1

\* C9: after a Start with an address whose prand has top two bits other than
\* 01, no key matched, the number of keys examined is NIRK (the completion is
\* scheduled accordingly) and no AES call was made.
C9_NotResolvable ==
  (op = "START" /\ ENABLE = AAR_ENABLED /\ PrandTopBits # 1) =>
    /\ matching_irk = -1
    /\ start_keys = NIRK
    /\ aes_calls = 0
    /\ Timer_AAR = start_time + 1 + 6 * NIRK

\* A Start with a full key list and an address that is not resolvable (top
\* bits 11) although its hash field is the one the first key produces
C9_Witness ==
  /\ op = "START"
  /\ ENABLE = AAR_ENABLED
  /\ PrandTopBits = 3
  /\ NIRK = MaxNIRK
  /\ KeyMatches(0)
  /\ aes_calls = 0

\* C10: after a Start with a resolvable address: a match at index i means
\* i + 1 keys were examined, key i reproduces the hash of the address and no
\* key before it does; a key of the list that reproduces the hash means a
\* match; and without such a key there is no match, NIRK keys were examined
\* and NIRK AES calls made.
C10_FirstMatch ==
  (op = "START" /\ ENABLE = AAR_ENABLED /\ PrandTopBits = 1) =>
    /\ matching_irk \in -1..(NIRK - 1)
    /\ matching_irk # -1 =>
         /\ start_keys = matching_irk + 1
         /\ KeyMatches(matching_irk)
         /\ \A j \in 0..(matching_irk - 1) : ~KeyMatches(j)
    /\ (\E j \in 0..(NIRK - 1) : KeyMatches(j)) => matching_irk # -1
    /\ (\A j \in 0..(NIRK - 1) : ~KeyMatches(j)) =>
         /\ matching_irk = -1
         /\ start_keys = NIRK
         /\ aes_calls = NIRK

\* A Start with two keys that both reproduce the hash: the first one matched
C10_Witness ==
  /\ op = "START"
  /\ ENABLE = AAR_ENABLED
  /\ PrandTopBits = 1
  /\ NIRK >= 2
  /\ KeyMatches(0)
  /\ KeyMatches(1)
  /\ matching_irk = 0
  /\ start_keys = 1

\* The set of bit positions set in an interrupt mask
MaskBits(m) == {i \in 0..2 : (m \div (2 ^ i)) % 2 = 1}

\* C11: an INTENSET write of b makes the mask the union of the old mask and
\* b, an INTENCLR write of b makes it the old mask without the bits of b, and
\* applying the code's update with the same b to the resulting mask once more
\* leaves it as it is.
C11_MaskAlgebra ==
  [][ \A b \in IntMasks :
        /\ nrf_aar_regw_sideeffects_INTENSET(b) =>
             /\ MaskBits(AAR_INTEN') = MaskBits(AAR_INTEN) \cup MaskBits(b)
             /\ AAR_INTEN' \in IntMasks
             /\ BitOr(AAR_INTEN', b) = AAR_INTEN'
        /\ nrf_aar_regw_sideeffects_INTENCLR(b) =>
             /\ MaskBits(AAR_INTEN') = MaskBits(AAR_INTEN) \ MaskBits(b)
             /\ AAR_INTEN' \in IntMasks
             /\ BitAndNot(AAR_INTEN', b) = AAR_INTEN' ]_vars

\* Bits were set with INTENSET and one of them was cleared with INTENCLR
C11_Witness ==
  /\ op = "INTENCLR"
  /\ AAR_INTEN = 5
  /\ INTENSET = 5

\* The interrupt mask has the (single) bit msk set
MaskHas(msk) == (AAR_INTEN \div msk) % 2 = 1

\* The interrupt bit of an event
EventMask(e) ==
  IF e = "END" THEN AAR_INTENSET_END_Msk
  ELSE IF e = "RESOLVED" THEN AAR_INTENCLR_RESOLVED_Msk
  ELSE AAR_INTENCLR_NOTRESOLVED_Msk

\* C12: the interrupt line is raised by an event exactly when the bit of that
\* event is in the mask: inside a completion, after the result event, iff the
\* mask has the bit of the result event that fired; after a completion iff it
\* has that bit or the End bit; after a Stop that published End iff it has the
\* End bit; and no other operation raises it.
C12_IrqIffMasked ==
  /\ pc = "tt_signal" => ~irq_raised
  /\ pc = "tt_end" => (irq_raised <=> MaskHas(EventMask(ppi_events[1])))
  /\ (op = "TIMER" /\ pc = "idle") =>
       (irq_raised <=> (MaskHas(EventMask(ppi_events[1]))
                        \/ MaskHas(AAR_INTENSET_END_Msk)))
  /\ pc = "stop_end" => ~irq_raised
  /\ (op = "STOP" /\ pc = "idle" /\ ppi_events = <<"END">>) =>
       (irq_raised <=> MaskHas(AAR_INTENSET_END_Msk))
  /\ (op = "STOP" /\ ppi_events = <<>>) => ~irq_raised
  /\ op \notin {"TIMER", "STOP"} => ~irq_raised

\* A completion published Resolved and End while only the NotResolved
\* interrupt was enabled: no interrupt
C12_Witness ==
  /\ op = "TIMER"
  /\ pc = "idle"
  /\ AAR_INTEN = AAR_INTENCLR_NOTRESOLVED_Msk
  /\ ppi_events = <<"RESOLVED", "END">>
  /\ ~irq_raised

\* C13: a Start task while ENABLE is not the enabled code, and a Stop task
\* while not running, change nothing of the peripheral state (running flag,
\* pending completion, stashed result, registers, interrupt mask), start no
\* handler, publish no event and raise no interrupt.
C13_InvalidCommandsIgnored ==
  [][ ( \/ (op' = "START" /\ pc = "idle" /\ ENABLE # AAR_ENABLED)
        \/ (op' = "STOP" /\ pc = "idle" /\ ~AAR_Running) ) =>
        /\ UNCHANGED <<now, Timer_AAR, AAR_INTEN, AAR_Running, matching_irk,
                       regs, mem, pc>>
        /\ ppi_events' = <<>>
        /\ ~irq_raised'
        /\ aes_calls' = 0 ]_vars

\* A Stop was issued while idle with the End interrupt enabled and End
\* never set
C13_Witness ==
  /\ op = "STOP"
  /\ pc = "idle"
  /\ ~AAR_Running
  /\ EVENTS_END = 0
  /\ AAR_INTEN = 7
  /\ ppi_events = <<>>
  /\ NIRK > 0

\* C14: a Start accepted with NIRK = 0 finds no match, counts 0 keys examined,
\* makes no AES call and schedules the completion at now + 1, whatever the
\* address; the completion of a Start that examined 0 keys is entered one
\* time unit after that Start with no match stashed; and a completion with
\* no match leaves STATUS alone and publishes NotResolved, then End.
C14_EmptyKeyList ==
  /\ [][ (op' = "START" /\ pc = "idle" /\ ENABLE = AAR_ENABLED /\ NIRK = 0) =>
           /\ AAR_Running'
           /\ matching_irk' = -1
           /\ start_keys' = 0
           /\ aes_calls' = 0
           /\ Timer_AAR' = now + 1 ]_vars
  /\ [][ (pc = "idle" /\ pc' = "tt_signal" /\ start_keys = 0) =>
           /\ now = start_time + 1
           /\ matching_irk = -1 ]_vars
  /\ [][ (pc = "tt_signal" /\ matching_irk = -1) =>
           /\ STATUS' = STATUS
           /\ ppi_events' = <<"NOTRESOLVED">>
           /\ pc' = "tt_end" ]_vars
  /\ [][ (pc = "tt_end" /\ ppi_events = <<"NOTRESOLVED">>) =>
           /\ STATUS' = STATUS
           /\ ppi_events' = <<"NOTRESOLVED", "END">> ]_vars

\* A Start was accepted with NIRK = 0 while the address is resolvable and
\* the first key in memory reproduces its hash
C14_Witness ==
  /\ op = "START"
  /\ ENABLE = AAR_ENABLED
  /\ NIRK = 0
  /\ PrandTopBits = 1
  /\ KeyMatches(0)
  /\ AAR_Running
  /\ Timer_AAR = now + 1

\* C15: after the side effect of any write to INTENCLR, INTENCLR reads 0 and
\* INTENSET reads the interrupt mask; after the side effect of any write to
\* INTENSET, a write of 0 included, INTENSET reads the interrupt mask.
C15_ReadbackIsMask ==
  /\ op = "INTENCLR" => (INTENCLR = 0 /\ INTENSET = AAR_INTEN)
  /\ op = "INTENSET" => INTENSET = AAR_INTEN

\* C16: an accepted Start task sets no event flag, publishes no event, raises
\* no interrupt and leaves STATUS, the interrupt mask and the interrupt
\* registers as they are; it ends with no handler executing.
C16_StartNotVisible ==
  [][ (op' = "START" /\ pc = "idle" /\ ENABLE = AAR_ENABLED) =>
        /\ UNCHANGED <<STATUS, EVENTS_END, EVENTS_RESOLVED, EVENTS_NOTRESOLVED,
                       AAR_INTEN, INTENSET, INTENCLR>>
        /\ ppi_events' = <<>>
        /\ ~irq_raised'
        /\ pc' = "idle" ]_vars

\* A Start was accepted whose resolution found a match at index 1 with all
\* interrupts enabled: STATUS and the event flags do not show it
C16_Witness ==
  /\ op = "START"
  /\ AAR_Running
  /\ matching_irk = 1
  /\ STATUS = 0
  /\ EVENTS_RESOLVED = 0
  /\ EVENTS_END = 0
  /\ AAR_INTEN = 7
  /\ ppi_events = <<>>
  /\ ~irq_raised

\* C17: a write to the address buffer, the key list or NIRK (a pointer set
\* to other contents being such a write) leaves the pending completion time,
\* the running flag, the stashed result and STATUS as they are; the
\* completion is entered at the time scheduled by the Start; and it publishes
\* the stashed result: with a match STATUS becomes the stashed index and
\* Resolved is published, without one STATUS stays and NotResolved is.
C17_ResultLatched ==
  /\ [][ op' = "WRITE" =>
           UNCHANGED <<Timer_AAR, AAR_Running, matching_irk, STATUS,
                       start_time, start_keys, pc>> ]_vars
  /\ [][ (pc = "idle" /\ pc' = "tt_signal") =>
           /\ now = start_time + 1 + 6 * start_keys
           /\ matching_irk' = matching_irk ]_vars
  /\ [][ pc = "tt_signal" =>
           IF matching_irk # -1
           THEN STATUS' = matching_irk /\ ppi_events' = <<"RESOLVED">>
           ELSE STATUS' = STATUS /\ ppi_events' = <<"NOTRESOLVED">> ]_vars

\* A completion published a match at index 1 although by then NIRK was 0,
\* the address not resolvable and the key list another one
C17_Witness ==
  /\ op = "TIMER"
  /\ pc = "idle"
  /\ ppi_events = <<"RESOLVED", "END">>
  /\ STATUS = 1
  /\ matching_irk = 1
  /\ NIRK = 0
  /\ PrandTopBits # 1
  /\ irkmem # IrkList
  /\ now = 1 + 6 * 2

\* The engine is idle at the points where a handler is about to publish End
IdleWhenEndIsDue ==
  pc \in {"tt_end", "stop_end"} => (~AAR_Running /\ Timer_AAR = TIME_NEVER)

\* C18: whenever a Stop or a completion is about to publish End, the engine
\* is already idle (not running, nothing pending); and a Start task triggered
\* by that End event while the peripheral is enabled leaves the engine
\* running, in the same instant, with the completion scheduled at that
\* instant + 1 + 6 * the keys its resolution examined.
C18_RestartFromEnd ==
  /\ IdleWhenEndIsDue
  /\ [][ IdleWhenEndIsDue' ]_vars
  /\ [][ (op' = "PPI_START" /\ pc # "idle" /\ ENABLE = AAR_ENABLED) =>
           /\ ~AAR_Running
           /\ AAR_Running'
           /\ pc' = "idle"
           /\ now' = now
           /\ EVENTS_END' = 1
           /\ start_keys' = nrf_aar_resolve(addr, irkmem, NIRK).ret
           /\ Timer_AAR' = now + 1 + 6 * start_keys' ]_vars

\* The End event of a completion has restarted the engine
C18_Witness ==
  /\ op = "PPI_START"
  /\ pc = "idle"
  /\ AAR_Running
  /\ ppi_events = <<"NOTRESOLVED", "END">>
  /\ EVENTS_END = 1
  /\ start_time = now
  /\ now > 0
  /\ Timer_AAR = now + 1 + 6 * start_keys

\* Number of End events among those the current/last operation published
EndsPublished == Cardinality({i \in 1..Len(ppi_events) : ppi_events[i] = "END"})

\* A Stop or a completion has just ended with End published and the engine idle
EndedIdle ==
  /\ pc = "idle"
  /\ ~AAR_Running
  /\ Timer_AAR = TIME_NEVER
  /\ op \in {"STOP", "TIMER"}
  /\ EndsPublished = 1

\* C19: whenever the engine is running, a Stop or a completion eventually
\* ends with End published and the engine idle; a handler that is about to
\* publish End publishes it exactly once and leaves the engine not running;
\* and while the engine is idle and not running no handler starts that
\* would publish anything, so Stop and completion never both publish End
\* for one Start.
C19_StartLeadsToEnd ==
  /\ AAR_Running ~> EndedIdle
  /\ [][ (pc \in {"tt_end", "stop_end"}) =>
           /\ EndsPublished' = 1
           /\ pc' = "idle"
           /\ AAR_Running' = FALSE ]_vars
  /\ [][ (pc = "idle" /\ ~AAR_Running) =>
           /\ pc' = "idle"
           /\ ppi_events' = <<>> ]_vars

\* A Stop has ended a Start before its completion time
C19_Witness ==
  /\ EndedIdle
  /\ op = "STOP"
  /\ now > MaxStart
  /\ EVENTS_RESOLVED = 0
  /\ EVENTS_NOTRESOLVED = 0

(* ---------------- C20: ENABLE is looked at by Start only ---------------- *)

\* The peripheral is not enabled while a Start is waiting for its completion
DisabledRunning ==
  /\ pc = "idle"
  /\ AAR_Running
  /\ ENABLE # AAR_ENABLED

\* C20: a write that changes ENABLE leaves the pending completion time, the
\* running flag and the stashed result as they are; with the peripheral not
\* enabled and a Start waiting, time does not pass the completion time, the
\* callback can run at that time, and a callback that has run has published
\* Resolved or NotResolved and then End; a Stop in that situation cancels
\* the completion and its last step publishes End; a Start with the
\* peripheral not enabled changes nothing.
C20_EnableOnlyAtStart ==
  /\ [][ (op' = "WRITE" /\ ENABLE' # ENABLE) =>
           UNCHANGED <<Timer_AAR, AAR_Running, matching_irk,
                       start_time, start_keys, pc>> ]_vars
  /\ [][ (DisabledRunning /\ now = Timer_AAR) => op' # "TIME" ]_vars
  /\ []((DisabledRunning /\ now = Timer_AAR) => ENABLED nrf_aar_timer_triggered)
  /\ [][ (DisabledRunning /\ op' = "TIMER") =>
           /\ now = start_time + 1 + 6 * start_keys
           /\ pc' = "tt_signal"
           /\ AAR_Running' = FALSE
           /\ Timer_AAR' = TIME_NEVER ]_vars
  /\ [][ (op' = "TIMER" /\ pc' = "idle") =>
           ppi_events' \in {<<"RESOLVED", "END">>, <<"NOTRESOLVED", "END">>} ]_vars
  /\ [][ (DisabledRunning /\ op' = "STOP") =>
           /\ AAR_Running' = FALSE
           /\ Timer_AAR' = TIME_NEVER
           /\ pc' = "stop_end" ]_vars
  /\ [][ (pc = "stop_end") =>
           /\ ppi_events' = <<"END">>
           /\ EVENTS_END' = 1
           /\ pc' = "idle" ]_vars
  /\ [][ (op' = "START" /\ ENABLE # AAR_ENABLED) =>
           UNCHANGED <<Timer_AAR, AAR_Running, matching_irk, regs, pc>> ]_vars

\* A completion has published its events with the peripheral not enabled
C20_Witness ==
  /\ op = "TIMER"
  /\ pc = "idle"
  /\ ENABLE # AAR_ENABLED
  /\ ~AAR_Running
  /\ ppi_events = <<"NOTRESOLVED", "END">>

====
